---- MODULE Spec2Model ----
(***************************************************************************)
(* A model of pdf_merger (src/pdf_merger/pdf_merger.py): the ordering of   *)
(* the listed PDF files by an index taken from the file name or by an      *)
(* explicit order list, the gating of the merge in main, and the page and  *)
(* bookmark bookkeeping of merge_pdfs.                                     *)
(*                                                                         *)
(* A Python str is a sequence of one-character strings, so that prefixes,  *)
(* suffixes, regular expression matches, splits and int() are computed.    *)
(***************************************************************************)
EXTENDS Integers, Sequences, FiniteSets, TLC

VARIABLES
  pc,               \* the position of the running call
  custom_order_arg, \* args.custom_order: NoneStr or a str
  custom_titles_arg,\* args.custom_titles: NoneStr or a str
  force_merge,      \* args.force_merge
  prefix,           \* args.prefix
  index_pattern,    \* args.index_pattern
  pdf_files,        \* the listing, in enumeration order
  custom_order,     \* the parsed order list (ints)
  sorted_pdfs,      \* the plan: a sequence of <<file, key>>
  planner,          \* the planner that was called: "none", "index", "order"
  warnings,         \* the files a "No index found" warning was printed for
  message,          \* the message main printed before an early return
  raised,           \* the exception that ended the run, or "none"
  extract_calls,    \* calls of extract_index_from_filename
  confirm_calls,    \* calls of confirm_merge
  confirm_answer,   \* what confirm_merge returned: "unasked", "yes", "no"
  merge_calls,      \* calls of merge_pdfs
  custom_titles,    \* merge_pdfs' custom_titles: NoneList or a list of str
  current_page,     \* merge_pdfs' running page counter
  appended,         \* the files merger.append has taken, in order
  page_counts,      \* the page count the library reported for each of them
  outline,          \* the outline items added: <<title, page>>
  output            \* the output file: "absent" or "written"

\* The parsed command line, which no step changes.
args == <<custom_order_arg, custom_titles_arg, force_merge, prefix,
          index_pattern>>
\* What the planners write.
plan == <<custom_order, sorted_pdfs, planner, warnings, extract_calls>>
\* What the confirmation writes.
gate == <<confirm_calls, confirm_answer>>
\* What merge_pdfs writes.
merge == <<current_page, appended, page_counts, outline, output>>

vars == <<pc, args, pdf_files, plan, message, raised, gate, merge_calls,
          custom_titles, merge>>

----------------------------------------------------------------------------
(* Bounds of the model.                                                    *)

\* The longest listing handed to the two planners.
MaxFiles == 3
\* The largest explicit order value.
MaxOrderVal == 3
\* The longest directory main lists.
MaxDir == 3
\* The longest plan handed to merge_pdfs on its own.
MaxPlan == 3
\* The longest title list handed to merge_pdfs on its own.
MaxTitles == 4
\* The largest page count the library reports for one file.
MaxPages == 2

----------------------------------------------------------------------------
(* Python values.                                                          *)

\* None where a str is expected (a str holds one-character strings only).
NoneStr == <<"None">>
\* None where a list of str is expected.
NoneList == <<<<"None">>>>
\* None where an int is expected: the keys int() yields here are >= 0.
NoneInt == -1

Digit == {"0", "1", "2", "3", "4", "5", "6", "7", "8", "9"}

DigitVal(c) ==
  CASE c = "0" -> 0 [] c = "1" -> 1 [] c = "2" -> 2 [] c = "3" -> 3
    [] c = "4" -> 4 [] c = "5" -> 5 [] c = "6" -> 6 [] c = "7" -> 7
    [] c = "8" -> 8 [] c = "9" -> 9

Min(S) == CHOOSE x \in S : \A y \in S : x <= y

\* str.startswith
startswith(s, p) == Len(p) <= Len(s) /\ SubSeq(s, 1, Len(p)) = p

\* str.endswith
endswith(s, p) ==
  Len(p) <= Len(s) /\ SubSeq(s, Len(s) - Len(p) + 1, Len(s)) = p

\* int(s) for a str of decimal digits (base 10, leading zeros allowed).
RECURSIVE int_of_digits(_)
int_of_digits(s) ==
  IF s = <<>> THEN 0
  ELSE 10 * int_of_digits(SubSeq(s, 1, Len(s) - 1)) + DigitVal(s[Len(s)])

\* int(s): a ValueError (NoneInt here) unless s is a non-empty digit string.
int(s) ==
  IF s # <<>> /\ \A i \in 1..Len(s) : s[i] \in Digit
  THEN int_of_digits(s) ELSE NoneInt

\* str.split(','): the fields between the commas, at least one.
RECURSIVE split(_)
split(s) ==
  LET commas == {i \in 1..Len(s) : s[i] = ","} IN
  IF commas = {} THEN <<s>>
  ELSE LET i == Min(commas) IN
       <<SubSeq(s, 1, i - 1)>> \o split(SubSeq(s, i + 1, Len(s)))

\* Truth value of an optional str argument: None and '' are false.
truthy(arg) == arg # NoneStr /\ arg # <<>>

----------------------------------------------------------------------------
(* File names.                                                             *)

PdfExt == <<".", "p", "d", "f">>

\* The PDF files a directory may hold.
Names ==
  { <<"d", "1", "_", "2">> \o PdfExt,
    <<"d", "1", "_", "1", "0">> \o PdfExt,
    <<"d", "1", "_", "1">> \o PdfExt,
    <<"x", "2">> \o PdfExt,
    <<"n", "o", "t", "e", "s">> \o PdfExt,
    PdfExt }

\* The sequences without repetition over S of length at most n: a directory
\* holds each name once.
Distinct(S, n) ==
  { s \in UNION { [1..k -> S] : k \in 0..n } :
      \A i, j \in 1..Len(s) : i # j => s[i] # s[j] }

\* The prefixes a caller passes.
Prefixes == { <<>>, <<"d", "1", "_">> }

\* The capture patterns a caller passes: the literal text before the group
\* (\d+); <<>> is the default pattern (\d+), <<"_">> is _(\d+).
DefaultPattern == <<>>
Patterns == { DefaultPattern, <<"_">> }

----------------------------------------------------------------------------
(* IndexExtractor.                                                         *)

\* The maximal run of digits of s that starts at position j.
RECURSIVE digit_run(_, _)
digit_run(s, j) ==
  IF j <= Len(s) /\ s[j] \in Digit THEN <<s[j]>> \o digit_run(s, j + 1)
  ELSE <<>>

\* re.search(lit + '(\d+)', s).group(1), or <<>> when there is no match:
\* the leftmost place where lit is followed by a digit, and the longest run
\* of digits there.
re_search(lit, s) ==
  LET at == { i \in 1..Len(s) :
                /\ i + Len(lit) <= Len(s)
                /\ SubSeq(s, i, i + Len(lit) - 1) = lit
                /\ s[i + Len(lit)] \in Digit }
  IN IF at = {} THEN <<>> ELSE digit_run(s, Min(at) + Len(lit))

\* extract_index_from_filename without the prefix being stripped.
extract_index_without_strip(filename, pre, pattern) ==
  LET match == re_search(pattern, filename)
  IN IF match # <<>> THEN int(match) ELSE NoneInt

extract_index_from_filename(filename, pre, pattern) ==
  LET clean_name == IF startswith(filename, pre)
                    THEN SubSeq(filename, Len(pre) + 1, Len(filename))
                    ELSE filename
      match == re_search(pattern, clean_name)
  IN IF match # <<>> THEN int(match) ELSE NoneInt

----------------------------------------------------------------------------
(* OrderPlanner.                                                           *)

\* d[k] = v on a dict kept as a sequence of <<key, value>> in insertion
\* order: a key already present keeps its place and takes the new value.
dict_set(d, k, v) ==
  IF \E i \in 1..Len(d) : d[i][1] = k
  THEN [i \in 1..Len(d) |-> IF d[i][1] = k THEN <<k, v>> ELSE d[i]]
  ELSE Append(d, <<k, v>>)

\* insert_by_key that puts x before the items of equal key.
insert_before_equal_keys(x, s) ==
  LET n == Cardinality({i \in 1..Len(s) : s[i][2] < x[2]}) IN
  SubSeq(s, 1, n) \o <<x>> \o SubSeq(s, n + 1, Len(s))

\* One insertion of a stable sort: x goes after every item whose key is not
\* larger.
insert_by_key(x, s) ==
  LET n == Cardinality({i \in 1..Len(s) : s[i][2] <= x[2]}) IN
  SubSeq(s, 1, n) \o <<x>> \o SubSeq(s, n + 1, Len(s))

\* sorted(items, key=lambda x: x[1]): ascending and stable.
RECURSIVE sorted_by_key(_)
sorted_by_key(items) ==
  IF items = <<>> THEN <<>>
  ELSE insert_by_key(items[Len(items)],
                     sorted_by_key(SubSeq(items, 1, Len(items) - 1)))

\* pdf_with_indices with the key 0 for a file without an index.
RECURSIVE pdf_with_indices_default_key(_, _, _)
pdf_with_indices_default_key(files, pre, pattern) ==
  IF files = <<>> THEN <<>>
  ELSE LET rest == pdf_with_indices_default_key(
                     SubSeq(files, 1, Len(files) - 1), pre, pattern)
           f == files[Len(files)]
           index == extract_index_from_filename(f, pre, pattern)
       IN dict_set(rest, f, IF index # NoneInt THEN index ELSE 0)

\* The dict get_sorted_pdfs_by_index builds: the files with an index.
RECURSIVE pdf_with_indices(_, _, _)
pdf_with_indices(files, pre, pattern) ==
  IF files = <<>> THEN <<>>
  ELSE LET rest == pdf_with_indices(SubSeq(files, 1, Len(files) - 1),
                                    pre, pattern)
           f == files[Len(files)]
           index == extract_index_from_filename(f, pre, pattern)
       IN IF index # NoneInt THEN dict_set(rest, f, index) ELSE rest

\* The files get_sorted_pdfs_by_index prints a warning for, in order.
RECURSIVE skipped_files(_, _, _)
skipped_files(files, pre, pattern) ==
  IF files = <<>> THEN <<>>
  ELSE LET rest == skipped_files(SubSeq(files, 1, Len(files) - 1),
                                 pre, pattern)
           f == files[Len(files)]
       IN IF extract_index_from_filename(f, pre, pattern) = NoneInt
          THEN Append(rest, f) ELSE rest

get_sorted_pdfs_by_index(files, pre, pattern) ==
  sorted_by_key(pdf_with_indices(files, pre, pattern))

\* The dict get_sorted_pdfs_by_order builds from zip(pdf_files, custom_order).
RECURSIVE pdf_with_order(_, _)
pdf_with_order(files, order) ==
  IF files = <<>> \/ order = <<>> THEN <<>>
  ELSE LET n == IF Len(files) < Len(order) THEN Len(files) ELSE Len(order)
       IN dict_set(pdf_with_order(SubSeq(files, 1, n - 1),
                                  SubSeq(order, 1, n - 1)),
                   files[n], order[n])

\* order_count_mismatch that only refuses too many order values.
order_count_mismatch_one_sided(files, order) == Len(files) < Len(order)

\* Whether get_sorted_pdfs_by_order raises its ValueError.
order_count_mismatch(files, order) == Len(files) # Len(order)

\* get_sorted_pdfs_by_order without the sort.
get_sorted_pdfs_by_order_unsorted(files, order) == pdf_with_order(files, order)

get_sorted_pdfs_by_order(files, order) ==
  sorted_by_key(pdf_with_order(files, order))

----------------------------------------------------------------------------
(* Command-line arguments and the external collaborators.                  *)

\* list_pdf_files: the entries of the directory that end in '.pdf', in the
\* order of the enumeration.
RECURSIVE list_pdf_files(_)
list_pdf_files(dir) ==
  IF dir = <<>> THEN <<>>
  ELSE LET rest == list_pdf_files(SubSeq(dir, 1, Len(dir) - 1))
           f == dir[Len(dir)]
       IN IF endswith(f, PdfExt) THEN Append(rest, f) ELSE rest

\* The entries of the directories main is run on.
DirEntries ==
  { <<"d", "1", "_", "2">> \o PdfExt,
    <<"d", "1", "_", "1", "0">> \o PdfExt,
    <<"n", "o", "t", "e", "s">> \o PdfExt,
    <<"d", "1", "_", "3", ".", "t", "x", "t">>,
    <<"d", "1", "_", "4", ".", "P", "D", "F">> }

\* The values of --custom_order main is run with: absent, '', '2', '10,2',
\* '2,2', '2,' and '1,2,3'.
OrderArgs ==
  { NoneStr, <<>>, <<"2">>, <<"1", "0", ",", "2">>, <<"2", ",", "2">>,
    <<"2", ",">>, <<"1", ",", "2", ",", "3">> }

\* The values of --custom_titles main is run with: absent, '', 'A' and 'A,B'.
TitleArgs == { NoneStr, <<>>, <<"A">>, <<"A", ",", "B">> }

\* parse_custom_order: int() of every field of the split.
parse_custom_order(order_str) ==
  LET fields == split(order_str) IN
  [i \in 1..Len(fields) |-> int(fields[i])]

\* Whether parse_custom_order raises (int() of a field raises ValueError).
parse_raises(order_str) ==
  \E i \in 1..Len(split(order_str)) : int(split(order_str)[i]) = NoneInt

\* (Path(input_folder) / pdf_file).stem: the name up to its last dot, or the
\* whole name when it has no dot or its last dot leads or ends it.
stem(name) ==
  LET dots == {i \in 1..Len(name) : name[i] = "."} IN
  IF dots = {} THEN name
  ELSE LET i == CHOOSE d \in dots : \A e \in dots : e <= d IN
       IF 1 < i /\ i < Len(name) THEN SubSeq(name, 1, i - 1) ELSE name

\* bookmark_title with the file name (pdf_path.name) as the default.
bookmark_title_file_name(titles, idx, pdf_file) ==
  IF titles # NoneList /\ titles # <<>> /\ idx < Len(titles)
  THEN titles[idx + 1] ELSE pdf_file

\* The title of the bookmark of the file at position idx (from 0) of the plan.
bookmark_title(titles, idx, pdf_file) ==
  IF titles # NoneList /\ titles # <<>> /\ idx < Len(titles)
  THEN titles[idx + 1] ELSE stem(pdf_file)

\* The i-th title of the title lists merge_pdfs is called with on its own.
Title(i) == <<"T", CHOOSE c \in Digit : DigitVal(c) = i>>

----------------------------------------------------------------------------
(* Initial states.                                                         *)

\* What no call has touched yet.
Fresh ==
  /\ warnings = <<>>
  /\ planner = "none"
  /\ message = "none"
  /\ raised = "none"
  /\ extract_calls = 0
  /\ confirm_calls = 0
  /\ confirm_answer = "unasked"
  /\ current_page = 0
  /\ appended = <<>>
  /\ page_counts = <<>>
  /\ outline = <<>>
  /\ output = "absent"

\* main, entered with the parsed arguments.
Init ==
  /\ pc = "main"
  /\ custom_order_arg \in OrderArgs
  /\ custom_titles_arg \in TitleArgs
  /\ force_merge \in BOOLEAN
  /\ prefix \in Prefixes
  /\ index_pattern \in Patterns
  /\ pdf_files = <<>>
  /\ custom_order = <<>>
  /\ sorted_pdfs = <<>>
  /\ custom_titles = NoneList
  /\ merge_calls = 0
  /\ Fresh

\* A planner, called on its own with a listing.
InitPlan ==
  /\ pdf_files \in Distinct(Names, MaxFiles) \ {<<>>}
  /\ \/ /\ pc = "call_by_index"
        /\ prefix \in Prefixes
        /\ index_pattern \in Patterns
        /\ custom_order = <<>>
     \/ /\ pc = "call_by_order"
        /\ prefix = <<>>
        /\ index_pattern = DefaultPattern
        /\ custom_order \in UNION { [1..k -> 1..MaxOrderVal] : k \in 0..MaxFiles }
  /\ custom_order_arg = NoneStr
  /\ custom_titles_arg = NoneStr
  /\ force_merge = FALSE
  /\ sorted_pdfs = <<>>
  /\ custom_titles = NoneList
  /\ merge_calls = 0
  /\ Fresh

\* merge_pdfs, called on its own with a plan and a title list.
InitMerge ==
  /\ pc = "merge"
  /\ \E files \in Distinct(Names, MaxPlan) :
       /\ files # <<>>
       /\ pdf_files = files
       /\ sorted_pdfs = [i \in 1..Len(files) |-> <<files[i], i>>]
  /\ custom_titles \in
       {NoneList} \cup { [i \in 1..n |-> Title(i)] : n \in 0..MaxTitles }
  /\ custom_order_arg = NoneStr
  /\ custom_titles_arg = NoneStr
  /\ force_merge = TRUE
  /\ prefix = <<>>
  /\ index_pattern = DefaultPattern
  /\ custom_order = <<>>
  /\ merge_calls = 1
  /\ Fresh

----------------------------------------------------------------------------------------------------------------------------------------
(* The planners, called on their own.                                      *)

\* What get_sorted_pdfs_by_index does to the state.
by_index_effect ==
  /\ sorted_pdfs' = get_sorted_pdfs_by_index(pdf_files, prefix, index_pattern)
  /\ warnings' = warnings \o skipped_files(pdf_files, prefix, index_pattern)
  /\ extract_calls' = extract_calls + Len(pdf_files)
  /\ planner' = "index"

call_get_sorted_pdfs_by_index ==
  /\ pc = "call_by_index"
  /\ by_index_effect
  /\ pc' = "returned"
  /\ UNCHANGED <<args, pdf_files, custom_order, message, raised, gate,
                 merge_calls, custom_titles, merge>>

call_get_sorted_pdfs_by_order ==
  /\ pc = "call_by_order"
  /\ ~order_count_mismatch(pdf_files, custom_order)
  /\ sorted_pdfs' = get_sorted_pdfs_by_order(pdf_files, custom_order)
  /\ planner' = "order"
  /\ pc' = "returned"
  /\ UNCHANGED <<args, pdf_files, custom_order, warnings, extract_calls,
                 message, raised, gate, merge_calls, custom_titles, merge>>

call_get_sorted_pdfs_by_order_raises ==
  /\ pc = "call_by_order"
  /\ order_count_mismatch(pdf_files, custom_order)
  /\ planner' = "order"
  /\ raised' = "OrderCountMismatch"
  /\ pc' = "raised"
  /\ UNCHANGED <<args, pdf_files, custom_order, sorted_pdfs, warnings,
                 extract_calls, message, gate, merge_calls, custom_titles,
                 merge>>

NextPlan ==
  \/ call_get_sorted_pdfs_by_index
  \/ call_get_sorted_pdfs_by_order
  \/ call_get_sorted_pdfs_by_order_raises

SpecPlan == InitPlan /\ [][NextPlan]_vars

----------------------------------------------------------------------------
(* merge_pdfs.                                                             *)

\* merge_append with the counter advanced before the bookmark is added.
merge_append_counts_first ==
  /\ pc = "merge"
  /\ Len(appended) < Len(sorted_pdfs)
  /\ \E num_pages \in 1..MaxPages :
       LET idx == Len(appended)
           pdf_file == sorted_pdfs[idx + 1][1]
       IN /\ appended' = Append(appended, pdf_file)
          /\ outline' = Append(outline,
                 <<IF custom_titles # NoneList /\ idx < Len(custom_titles)
                   THEN custom_titles[idx + 1] ELSE stem(pdf_file),
                   current_page + num_pages>>)
          /\ page_counts' = Append(page_counts, num_pages)
          /\ current_page' = current_page + num_pages
  /\ UNCHANGED <<pc, args, pdf_files, plan, message, raised, gate,
                 merge_calls, custom_titles, output>>

\* One turn of the loop: the file is appended, its bookmark is added at the
\* running page counter, and the counter advances by the page count the
\* library reports for the file just appended.
merge_append ==
  /\ pc = "merge"
  /\ Len(appended) < Len(sorted_pdfs)
  /\ \E num_pages \in 1..MaxPages :
       LET idx == Len(appended)
           pdf_file == sorted_pdfs[idx + 1][1]
       IN /\ appended' = Append(appended, pdf_file)
          /\ outline' = Append(outline,
                 <<bookmark_title(custom_titles, idx, pdf_file), current_page>>)
          /\ page_counts' = Append(page_counts, num_pages)
          /\ current_page' = current_page + num_pages
  /\ UNCHANGED <<pc, args, pdf_files, plan, message, raised, gate,
                 merge_calls, custom_titles, output>>

\* merge_append_raises with the exception caught and the file skipped.
merge_append_raise_swallowed ==
  /\ pc = "merge"
  /\ Len(appended) < Len(sorted_pdfs)
  /\ raised' = "AppendFailure"
  /\ sorted_pdfs' = [i \in 1..(Len(sorted_pdfs) - 1) |->
                       IF i <= Len(appended) THEN sorted_pdfs[i]
                       ELSE sorted_pdfs[i + 1]]
  /\ UNCHANGED <<pc, args, pdf_files, custom_order, planner, warnings,
                 extract_calls, message, gate, merge_calls, custom_titles,
                 merge>>

\* merger.append raises: nothing in merge_pdfs or main catches it.
merge_append_raises ==
  /\ pc = "merge"
  /\ Len(appended) < Len(sorted_pdfs)
  /\ raised' = "AppendFailure"
  /\ pc' = "raised"
  /\ UNCHANGED <<args, pdf_files, plan, message, gate, merge_calls,
                 custom_titles, merge>>

\* After the loop: the output file is opened and written, the merger closed,
\* and merge_pdfs and its caller return.
merge_write ==
  /\ pc = "merge"
  /\ Len(appended) = Len(sorted_pdfs)
  /\ output' = "written"
  /\ pc' = "exit"
  /\ UNCHANGED <<args, pdf_files, plan, message, raised, gate, merge_calls,
                 custom_titles, current_page, appended, page_counts, outline>>

NextMerge == merge_append \/ merge_append_raises \/ merge_write

SpecMerge == InitMerge /\ [][NextMerge]_vars

----------------------------------------------------------------------------
(* main.                                                                   *)

\* Step 1: the directory is listed; without a PDF file main returns.
main_list ==
  /\ pc = "main"
  /\ \E dir \in Distinct(DirEntries, MaxDir) :
       /\ pdf_files' = list_pdf_files(dir)
       /\ IF list_pdf_files(dir) = <<>>
          THEN message' = "NoInputFiles" /\ pc' = "exit"
          ELSE message' = message /\ pc' = "sort"
  /\ UNCHANGED <<args, plan, raised, gate, merge_calls, custom_titles, merge>>

\* Step 2 with --custom_order: int() of a field raises.
main_parse_order_raises ==
  /\ pc = "sort"
  /\ truthy(custom_order_arg)
  /\ parse_raises(custom_order_arg)
  /\ raised' = "ValueError"
  /\ pc' = "raised"
  /\ UNCHANGED <<args, pdf_files, plan, message, gate, merge_calls,
                 custom_titles, merge>>

\* Step 2 with --custom_order: get_sorted_pdfs_by_order raises.
main_sort_by_order_raises ==
  /\ pc = "sort"
  /\ truthy(custom_order_arg)
  /\ ~parse_raises(custom_order_arg)
  /\ order_count_mismatch(pdf_files, parse_custom_order(custom_order_arg))
  /\ custom_order' = parse_custom_order(custom_order_arg)
  /\ planner' = "order"
  /\ raised' = "OrderCountMismatch"
  /\ pc' = "raised"
  /\ UNCHANGED <<args, pdf_files, sorted_pdfs, warnings, extract_calls,
                 message, gate, merge_calls, custom_titles, merge>>

\* Step 2 with --custom_order: the plan of the explicit strategy.
main_sort_by_order ==
  /\ pc = "sort"
  /\ truthy(custom_order_arg)
  /\ ~parse_raises(custom_order_arg)
  /\ ~order_count_mismatch(pdf_files, parse_custom_order(custom_order_arg))
  /\ custom_order' = parse_custom_order(custom_order_arg)
  /\ sorted_pdfs' =
       get_sorted_pdfs_by_order(pdf_files, parse_custom_order(custom_order_arg))
  /\ planner' = "order"
  /\ pc' = "check"
  /\ UNCHANGED <<args, pdf_files, warnings, extract_calls, message, raised,
                 gate, merge_calls, custom_titles, merge>>

\* main_sort_by_index taken whether or not --custom_order is given.
main_sort_by_index_unguarded ==
  /\ pc = "sort"
  /\ by_index_effect
  /\ pc' = "check"
  /\ UNCHANGED <<args, pdf_files, custom_order, message, raised, gate,
                 merge_calls, custom_titles, merge>>

\* Step 2 without --custom_order: the plan of the index strategy.
main_sort_by_index ==
  /\ pc = "sort"
  /\ ~truthy(custom_order_arg)
  /\ by_index_effect
  /\ pc' = "check"
  /\ UNCHANGED <<args, pdf_files, custom_order, message, raised, gate,
                 merge_calls, custom_titles, merge>>

\* An empty plan: main returns.
main_no_valid_entries ==
  /\ pc = "check"
  /\ sorted_pdfs = <<>>
  /\ message' = "NoValidEntries"
  /\ pc' = "exit"
  /\ UNCHANGED <<args, pdf_files, plan, raised, gate, merge_calls,
                 custom_titles, merge>>

\* Step 3: the title list.
main_titles ==
  /\ pc = "check"
  /\ sorted_pdfs # <<>>
  /\ custom_titles' = IF truthy(custom_titles_arg)
                      THEN split(custom_titles_arg) ELSE NoneList
  /\ pc' = "gate"
  /\ UNCHANGED <<args, pdf_files, plan, message, raised, gate, merge_calls,
                 merge>>

\* Step 4 with --force_merge: confirm_merge is not evaluated; step 5 starts.
main_forced ==
  /\ pc = "gate"
  /\ force_merge
  /\ merge_calls' = merge_calls + 1
  /\ pc' = "merge"
  /\ UNCHANGED <<args, pdf_files, plan, message, raised, gate, custom_titles,
                 merge>>

\* Step 4: the user answers yes; step 5 starts.
main_confirmed ==
  /\ pc = "gate"
  /\ ~force_merge
  /\ confirm_calls' = confirm_calls + 1
  /\ confirm_answer' = "yes"
  /\ merge_calls' = merge_calls + 1
  /\ pc' = "merge"
  /\ UNCHANGED <<args, pdf_files, plan, message, raised, custom_titles, merge>>

\* main_declined without the return: the merge starts all the same.
main_declined_merges ==
  /\ pc = "gate"
  /\ ~force_merge
  /\ confirm_calls' = confirm_calls + 1
  /\ confirm_answer' = "no"
  /\ message' = "UserAbort"
  /\ merge_calls' = merge_calls + 1
  /\ pc' = "merge"
  /\ UNCHANGED <<args, pdf_files, plan, raised, custom_titles, merge>>

\* Step 4: the user answers anything else; main returns.
main_declined ==
  /\ pc = "gate"
  /\ ~force_merge
  /\ confirm_calls' = confirm_calls + 1
  /\ confirm_answer' = "no"
  /\ message' = "UserAbort"
  /\ pc' = "exit"
  /\ UNCHANGED <<args, pdf_files, plan, raised, merge_calls, custom_titles,
                 merge>>

Next ==
  \/ main_list
  \/ main_parse_order_raises
  \/ main_sort_by_order_raises
  \/ main_sort_by_order
  \/ main_sort_by_index
  \/ main_no_valid_entries
  \/ main_titles
  \/ main_forced
  \/ main_confirmed
  \/ main_declined
  \/ merge_append
  \/ merge_append_raises
  \/ merge_write

Spec == Init /\ [][Next]_vars

----------------------------------------------------------------------------
(* Vocabulary of the properties.                                           *)

D1_1 == <<"d", "1", "_", "1">> \o PdfExt
D1_2 == <<"d", "1", "_", "2">> \o PdfExt
D1_10 == <<"d", "1", "_", "1", "0">> \o PdfExt
X2 == <<"x", "2">> \o PdfExt
Notes == <<"n", "o", "t", "e", "s">> \o PdfExt

\* The position of file f in the listing.
ListingPos(f) == CHOOSE i \in 1..Len(pdf_files) : pdf_files[i] = f

\* The plan is non-decreasing by key.
NonDecreasing == \A i, j \in 1..Len(sorted_pdfs) :
  i < j => sorted_pdfs[i][2] <= sorted_pdfs[j][2]

\* p1 + ... + pn of a sequence of page counts.
RECURSIVE SumUpTo(_, _)
SumUpTo(p, n) == IF n = 0 THEN 0 ELSE SumUpTo(p, n - 1) + p[n]

\* The name without the prefix when the prefix leads it, else the name.
Stripped(f, pre) ==
  IF Len(pre) <= Len(f) /\ \A i \in 1..Len(pre) : f[i] = pre[i]
  THEN [i \in 1..(Len(f) - Len(pre)) |-> f[i + Len(pre)]]
  ELSE f

HasDigit(s) == \E i \in 1..Len(s) : s[i] \in Digit

RECURSIVE Pow10(_)
Pow10(n) == IF n = 0 THEN 1 ELSE 10 * Pow10(n - 1)

\* The number written by the first run of decimal digits of s.
FirstNumber(s) ==
  LET a == CHOOSE i \in 1..Len(s) :
             s[i] \in Digit /\ \A j \in 1..(i - 1) : s[j] \notin Digit
      b == CHOOSE i \in a..Len(s) :
             /\ \A j \in a..i : s[j] \in Digit
             /\ (i = Len(s) \/ s[i + 1] \notin Digit)
      term[i \in (a - 1)..b] ==
        IF i = a - 1 THEN 0 ELSE term[i - 1] + DigitVal(s[i]) * Pow10(b - i)
  IN term[b]

\* The number of fields of a comma-separated argument.
FieldCount(arg) == Cardinality({i \in 1..Len(arg) : arg[i] = ","}) + 1

----------------------------------------------------------------------------
(* Properties of the planners, checked under SpecPlan.                     *)

\* C2: explicit strategy: for a listing of N files and an order list of
\* length N, the plan is a permutation of the N files, each paired with the
\* order value at its own listing position, non-decreasing by that value.
ExplicitPlanIsSortedPermutation ==
  (planner = "order" /\ raised = "none") =>
    /\ Len(custom_order) = Len(pdf_files)
    /\ Len(sorted_pdfs) = Len(pdf_files)
    /\ \E perm \in [1..Len(pdf_files) -> 1..Len(pdf_files)] :
         /\ \A i, j \in 1..Len(pdf_files) : i # j => perm[i] # perm[j]
         /\ \A i \in 1..Len(pdf_files) :
              sorted_pdfs[i] = <<pdf_files[perm[i]], custom_order[perm[i]]>>
    /\ NonDecreasing

\* Three files with the order 3,1,2: the plan is file2(1), file3(2), file1(3).
ExplicitPlanReached ==
  /\ planner = "order"
  /\ pc = "returned"
  /\ custom_order = <<3, 1, 2>>
  /\ Len(pdf_files) = 3
  /\ sorted_pdfs = << <<pdf_files[2], 1>>, <<pdf_files[3], 2>>,
                      <<pdf_files[1], 3>> >>

\* C4: index strategy: the plan holds exactly the listed files whose
\* extraction yields an integer, each once and with its extracted key; a file
\* the pattern does not match (so every file without a digit) is left out
\* and is given no key; one warning is printed per file left out, in listing
\* order, the later files are still processed, and the plan is no longer
\* than the listing.
IndexPlanKeepsExactlyKeyedFiles ==
  planner = "index" =>
    LET key(f) == extract_index_from_filename(f, prefix, index_pattern)
        keyed == {i \in 1..Len(pdf_files) : key(pdf_files[i]) # NoneInt}
        inPlan(f) == {i \in 1..Len(sorted_pdfs) : sorted_pdfs[i][1] = f}
        warned(f) == {i \in 1..Len(warnings) : warnings[i] = f}
    IN /\ \A i \in 1..Len(sorted_pdfs) :
            /\ \E j \in keyed : sorted_pdfs[i][1] = pdf_files[j]
            /\ sorted_pdfs[i][2] = key(sorted_pdfs[i][1])
            /\ sorted_pdfs[i][2] \in Nat
       /\ \A j \in 1..Len(pdf_files) :
            /\ j \in keyed =>
                 /\ Cardinality(inPlan(pdf_files[j])) = 1
                 /\ warned(pdf_files[j]) = {}
            /\ j \notin keyed =>
                 /\ inPlan(pdf_files[j]) = {}
                 /\ Cardinality(warned(pdf_files[j])) = 1
            /\ ~HasDigit(pdf_files[j]) => inPlan(pdf_files[j]) = {}
       /\ \A i, j \in 1..Len(warnings) :
            i < j => ListingPos(warnings[i]) < ListingPos(warnings[j])
       /\ Len(sorted_pdfs) + Len(warnings) = Len(pdf_files)
       /\ Len(sorted_pdfs) <= Len(pdf_files)

\* Three files, the second without a digit: the plan holds the other two
\* and one warning was printed.
IndexPlanSkipsOneFile ==
  /\ planner = "index"
  /\ Len(pdf_files) = 3
  /\ pdf_files[2] = Notes
  /\ Len(sorted_pdfs) = 2
  /\ warnings = <<Notes>>
  /\ sorted_pdfs[2][1] = pdf_files[3]

\* C5: index strategy, default pattern: when every listed name (after the
\* prefix is stripped) holds a digit, the plan is as long as the listing,
\* every key is the number written by the first run of digits, and the plan
\* is non-decreasing by that number (2 before 10).
DefaultPatternPlanIsNumericallySorted ==
  ( /\ planner = "index"
    /\ index_pattern = DefaultPattern
    /\ \A i \in 1..Len(pdf_files) : HasDigit(Stripped(pdf_files[i], prefix)) )
  =>
    /\ Len(sorted_pdfs) = Len(pdf_files)
    /\ \A i \in 1..Len(sorted_pdfs) :
         sorted_pdfs[i][2] = FirstNumber(Stripped(sorted_pdfs[i][1], prefix))
    /\ \A i, j \in 1..Len(sorted_pdfs) :
         i < j => FirstNumber(Stripped(sorted_pdfs[i][1], prefix))
                    <= FirstNumber(Stripped(sorted_pdfs[j][1], prefix))

\* d1_2.pdf, d1_10.pdf, d1_1.pdf with the prefix d1_ and the default
\* pattern: the plan is d1_1.pdf(1), d1_2.pdf(2), d1_10.pdf(10).
NumericScenarioReached ==
  /\ planner = "index"
  /\ index_pattern = DefaultPattern
  /\ prefix = <<"d", "1", "_">>
  /\ pdf_files = <<D1_2, D1_10, D1_1>>
  /\ sorted_pdfs = << <<D1_1, 1>>, <<D1_2, 2>>, <<D1_10, 10>> >>

\* C6: stability, in both strategies: two plan entries with equal key (index
\* strategy) or equal order value (explicit strategy) stand in the plan in
\* the order of the listing.
EqualKeysKeepListingOrder ==
  (planner \in {"index", "order"} /\ raised = "none") =>
    \A i, j \in 1..Len(sorted_pdfs) :
      (i < j /\ sorted_pdfs[i][2] = sorted_pdfs[j][2]) =>
        ListingPos(sorted_pdfs[i][1]) < ListingPos(sorted_pdfs[j][1])

\* Without a prefix d1_10.pdf, x2.pdf and d1_2.pdf have the keys 1, 2, 1:
\* the plan is d1_10.pdf, d1_2.pdf, x2.pdf, the tie in listing order.
TieReached ==
  /\ planner = "index"
  /\ prefix = <<>>
  /\ index_pattern = DefaultPattern
  /\ pdf_files = <<D1_10, X2, D1_2>>
  /\ sorted_pdfs = << <<D1_10, 1>>, <<D1_2, 1>>, <<X2, 2>> >>

----------------------------------------------------------------------------
(* Properties of merge_pdfs, checked under SpecMerge.                      *)

\* C1: bookmark offsets: with the page counts p1..pk of the files appended so
\* far, the page of the i-th outline entry is p1 + ... + p(i-1), which is 0
\* for the first: every bookmark points at the first page of its own file.
BookmarkAtFirstPageOfItsFile ==
  /\ Len(outline) = Len(page_counts)
  /\ \A i \in 1..Len(outline) : outline[i][2] = SumUpTo(page_counts, i - 1)
  /\ current_page = SumUpTo(page_counts, Len(page_counts))

\* Three files of 2, 1 and 2 pages are merged and written: the bookmarks are
\* at the pages 0, 2 and 3.
OffsetsReached ==
  /\ output = "written"
  /\ page_counts = <<2, 1, 2>>
  /\ Len(outline) = 3
  /\ outline[1][2] = 0 /\ outline[2][2] = 2 /\ outline[3][2] = 3

\* C8: append failure: once appending a file has failed the run has stopped
\* there: the files appended and the bookmarks added are those before the
\* failing file and stay so, and the output file is absent and stays absent.
AppendFailureAborts ==
  /\ [](raised = "AppendFailure" =>
          /\ pc = "raised"
          /\ output = "absent"
          /\ Len(appended) < Len(sorted_pdfs)
          /\ Len(outline) = Len(appended))
  /\ [][raised = "AppendFailure" => UNCHANGED <<appended, outline, output>>]_vars

\* The second of three files fails to append: one file was appended, no
\* output file exists.
AppendFailureReached ==
  /\ raised = "AppendFailure"
  /\ Len(sorted_pdfs) = 3
  /\ Len(appended) = 1
  /\ Len(outline) = 1
  /\ output = "absent"

\* C10: bookmark titles: the i-th outline entry belongs to the i-th plan
\* entry; its title is the i-th title when a title list is given and has
\* one, else the file's name without its extension (.pdf, which every listed
\* name ends in; the name ".pdf" itself is all base name and has none). One
\* entry is added per file appended, and when the output is written there is
\* one per plan entry, whatever the length of the title list.
TitleIsCustomOrBaseName ==
  /\ Len(outline) = Len(appended)
  /\ Len(outline) <= Len(sorted_pdfs)
  /\ output = "written" => Len(outline) = Len(sorted_pdfs)
  /\ \A i \in 1..Len(outline) :
       LET f == sorted_pdfs[i][1]
           title == outline[i][1]
       IN /\ appended[i] = f
          /\ IF custom_titles # NoneList /\ i <= Len(custom_titles)
             THEN title = custom_titles[i]
             ELSE IF f = PdfExt THEN title = f ELSE title \o PdfExt = f

\* Three files and two titles: T1, T2, then the base name of the third file.
ShortTitleListReached ==
  /\ output = "written"
  /\ Len(sorted_pdfs) = 3
  /\ custom_titles = <<Title(1), Title(2)>>
  /\ sorted_pdfs[3][1] = D1_10
  /\ outline[1][1] = <<"T", "1">>
  /\ outline[2][1] = <<"T", "2">>
  /\ outline[3][1] = <<"d", "1", "_", "1", "0">>

----------------------------------------------------------------------------
(* Properties of main, checked under Spec.                                 *)

\* The run went past step 2 (the listing was not empty).
Planned == pc \notin {"main", "sort"} /\ pdf_files # <<>>

\* C3: explicit strategy: a run given a (non-empty, well-formed) order list
\* whose number of values differs from the number of listed files ends in
\* planning with OrderCountMismatch: there is no plan, confirm_merge and
\* merge_pdfs are never called, nothing is appended and no output file is
\* produced.
CountMismatchFailsTheRun ==
  ( /\ Planned
    /\ truthy(custom_order_arg)
    /\ ~parse_raises(custom_order_arg)
    /\ FieldCount(custom_order_arg) # Len(pdf_files) )
  =>
    /\ pc = "raised"
    /\ raised = "OrderCountMismatch"
    /\ sorted_pdfs = <<>>
    /\ confirm_calls = 0
    /\ merge_calls = 0
    /\ appended = <<>>
    /\ output = "absent"

\* The order 10,2 for three listed files.
CountMismatchReached ==
  /\ raised = "OrderCountMismatch"
  /\ Len(pdf_files) = 3
  /\ custom_order = <<10, 2>>
  /\ output = "absent"

\* C7: strategy precedence: on a run given a (non-empty) order list
\* extract_index_from_filename and get_sorted_pdfs_by_index are never
\* called, whatever the prefix and the pattern, no warning is printed, and
\* every plan entry is a listed file with the order value at its listing
\* position.
ExplicitOrderBypassesIndex ==
  truthy(custom_order_arg) =>
    /\ extract_calls = 0
    /\ planner # "index"
    /\ warnings = <<>>
    /\ sorted_pdfs # <<>> =>
         /\ planner = "order"
         /\ \A i \in 1..Len(sorted_pdfs) :
              \E j \in 1..Len(pdf_files) :
                /\ j <= Len(custom_order)
                /\ sorted_pdfs[i] = <<pdf_files[j], custom_order[j]>>

\* d1_2.pdf, d1_10.pdf with the order 10,2, a prefix and a pattern: the
\* written plan is d1_10.pdf(2), d1_2.pdf(10), against the indices.
PrecedenceReached ==
  /\ custom_order_arg = <<"1", "0", ",", "2">>
  /\ prefix = <<"d", "1", "_">>
  /\ index_pattern = <<"_">>
  /\ pdf_files = <<D1_2, D1_10>>
  /\ sorted_pdfs = << <<D1_10, 2>>, <<D1_2, 10>> >>
  /\ output = "written"

\* C9: gating: merge_pdfs is called, a file appended or the output written
\* only when the listing and the plan are not empty and force mode is set or
\* confirm_merge returned yes; a run that ends for no PDF found, no valid
\* index or the user declining has printed its message and has no output
\* file; in force mode confirm_merge is never called.
MergeOnlyBehindTheGate ==
  /\ (merge_calls > 0 \/ appended # <<>> \/ output # "absent") =>
       /\ merge_calls = 1
       /\ pdf_files # <<>>
       /\ sorted_pdfs # <<>>
       /\ force_merge \/ confirm_answer = "yes"
       /\ message = "none"
  /\ (pc = "exit" /\ pdf_files = <<>>) =>
       message = "NoInputFiles" /\ merge_calls = 0 /\ output = "absent"
  /\ (pc = "exit" /\ pdf_files # <<>> /\ sorted_pdfs = <<>>) =>
       message = "NoValidEntries" /\ merge_calls = 0 /\ output = "absent"
  /\ confirm_answer = "no" =>
       /\ pc = "exit"
       /\ message = "UserAbort"
       /\ merge_calls = 0
       /\ output = "absent"
  /\ message # "none" => (pc = "exit" /\ merge_calls = 0 /\ output = "absent")
  /\ force_merge => (confirm_calls = 0 /\ confirm_answer = "unasked")
  /\ confirm_calls <= 1

\* The user declines the merge of a plan of two files.
DeclinedReached ==
  /\ pc = "exit"
  /\ ~force_merge
  /\ confirm_answer = "no"
  /\ Len(sorted_pdfs) = 2
  /\ message = "UserAbort"
  /\ output = "absent"

====
